---------------------------- MODULE Spec2Model ----------------------------
(***************************************************************************)
(* Trajectory simulator (kanade-k-1228/traj): the jotai store of           *)
(* src/state/traj.ts, the derivation and metrics functions of              *)
(* src/utils/trajectory.ts and the UI handlers that drive them.            *)
(*                                                                         *)
(* Numbers.  The code computes in IEEE doubles; the model computes exactly *)
(* on a lattice of integers, one unit per kind of signal, chosen so that   *)
(* multiplying or dividing by CONFIG.dt is exact:                          *)
(*   vx, vy : 0.1 m/s           px, py : 0.1 m/s * dt  = 0.01 m            *)
(*   oz     : pi/4 rad          wz     : (pi/4 rad) / dt                   *)
(*   ax, ay : 0.1 m/s / dt      l1     : 0.01 m                            *)
(*   cz     : an exact fraction <<num, den>> of (wz unit)/(vx unit)        *)
(* so `a / CONFIG.dt` and `v * CONFIG.dt` keep the integer and change the  *)
(* unit.  Math.sqrt is the integer square root, Math.atan2 is truncated to *)
(* the angle lattice (exact on the eight compass directions), Math.tan is  *)
(* exact on the lattice, with a finite value at the poles as in doubles.   *)
(* Array index i of the code is index i+1 of a sequence here.              *)
(***************************************************************************)
EXTENDS Integers, Sequences, FiniteSets, TLC

\* CONFIG.timeSteps (33 in the code), scaled down for model checking
timeSteps == 3
\* number of user operations explored after the application has mounted
MaxOps == 3

\* Math.PI on the angle lattice (unit pi/4)
PI == 4
\* |Math.tan| at an odd multiple of pi/2: finite in doubles, and larger than
\* at any other lattice angle
TanPole == 8
\* speed > 0.01 (m/s) in calculateFromPxPy / calculateFromVxVy, in cm/s
StationarySpeed == 1
\* v > 0.1 (m/s) in calculateOutputData, in cm/s
CurvatureSpeed == 10

InputKeys == {"px", "py", "oz", "vx", "vy", "wz"}
OutputKeys == {"ax", "ay", "cz", "l1"}
Methods == {"position", "velocity", "integral", "differential"}

\* METHODS[mode].inputs
METHODS ==
  [position |-> {"px", "py"}, velocity |-> {"vx", "vy"},
   integral |-> {"vx", "wz"}, differential |-> {"px", "oz"}]

-----------------------------------------------------------------------------
(* Arithmetic helpers *)

Abs(x) == IF x < 0 THEN -x ELSE x

RECURSIVE Gcd(_, _)
Gcd(a, b) == IF b = 0 THEN a ELSE Gcd(b, a % b)

\* the r with lo <= r < hi and r*r <= n < (r+1)*(r+1), by bisection
RECURSIVE SqrtBetween(_, _, _)
SqrtBetween(n, lo, hi) ==
  IF hi - lo <= 1 THEN lo
  ELSE LET mid == (lo + hi) \div 2
       IN IF mid * mid <= n THEN SqrtBetween(n, mid, hi)
          ELSE SqrtBetween(n, lo, mid)

\* (mutant) the root is left out: the squared length
Sqrt_Squared(n) == n

\* Math.sqrt on non-negative integers: the integer square root
Sqrt(n) == SqrtBetween(n, 0, 46341)

\* w / v for v > 0, as a fraction in lowest terms
Ratio(w, v) == LET g == Gcd(Abs(w), v) IN <<w \div g, v \div g>>

\* the number 0 in a cz buffer
CzZero == <<0, 1>>

\* Math.atan2(y, x) truncated toward zero onto the angle lattice
Atan2(y, x) ==
  LET m == IF x > 0 THEN (IF Abs(y) < x THEN 0 ELSE 1)
           ELSE IF x = 0 THEN (IF y = 0 THEN 0 ELSE 2)
           ELSE IF y = 0 THEN 4
           ELSE IF Abs(y) <= -x THEN 3 ELSE 2
  IN IF y < 0 THEN -m ELSE m

\* Math.tan on the angle lattice
Tan(a) ==
  LET r == a % PI
  IN IF r = 0 THEN 0
     ELSE IF r = 1 THEN 1
     ELSE IF r = 3 THEN -1
     ELSE IF a > 0 THEN TanPole ELSE -TanPole

\* while (a > Math.PI) a -= 2 * Math.PI; while (a < -Math.PI) a += 2 * Math.PI
RECURSIVE Normalize(_)
Normalize(a) ==
  IF a > PI THEN Normalize(a - 2 * PI)
  ELSE IF a < -PI THEN Normalize(a + 2 * PI)
  ELSE a

\* (mutant) a speed of exactly the limit counts as above it
SpeedAbove_OrEqual(vx, vy, limit) == 100 * (vx * vx + vy * vy) >= limit * limit

\* Math.sqrt(vx*vx + vy*vy) > limit, compared exactly; vx, vy in units of
\* 10 cm/s and limit in cm/s
SpeedAbove(vx, vy, limit) == 100 * (vx * vx + vy * vy) > limit * limit

\* new Array(length).fill(0)
Zeros(n) == [i \in 1..n |-> 0]


-----------------------------------------------------------------------------
(* src/utils/trajectory.ts: the derivation engine *)

\* (mutant) the integration always starts at 0
Seed_Zero(buf) == 0

\* (mutant) the seed is taken from the end of the buffer
Seed_LastSample(buf) == IF Len(buf) > 0 THEN buf[Len(buf)] ELSE 0

\* data.px?.[0] || 0
Seed(buf) == IF Len(buf) > 0 THEN buf[1] ELSE 0

\* (mutant) backward difference, forward difference at the first index
FiniteDifference_Backward(p) ==
  [i \in 1..Len(p) |-> IF i > 1 THEN p[i] - p[i - 1] ELSE p[i + 1] - p[i]]

\* (mutant) the last index keeps the 0 the array was filled with
FiniteDifference_LastZero(p) ==
  [i \in 1..Len(p) |-> IF i < Len(p) THEN p[i + 1] - p[i] ELSE 0]

\* forward difference, backward difference at the last index, over CONFIG.dt
FiniteDifference(p) ==
  [i \in 1..Len(p) |-> IF i < Len(p) THEN p[i + 1] - p[i] ELSE p[i] - p[i - 1]]

\* (mutant) x recorded after x += v[i] * CONFIG.dt
Integrate_RecordsAfter(seed, v) ==
  LET x[i \in 1..Len(v)] == (IF i = 1 THEN seed ELSE x[i - 1]) + v[i]
  IN [i \in 1..Len(v) |-> x[i]]

\* x recorded before x += v[i] * CONFIG.dt
Integrate(seed, v) ==
  LET x[i \in 1..Len(v)] == IF i = 1 THEN seed ELSE x[i - 1] + v[i - 1]
  IN [i \in 1..Len(v) |-> x[i]]

\* (mutant) a stationary sample gets the heading 0
OrientationFromVelocity_NoCarry(vx, vy) ==
  [i \in 1..Len(vx) |->
     IF SpeedAbove(vx[i], vy[i], StationarySpeed) THEN Atan2(vy[i], vx[i]) ELSE 0]

\* oz from the direction of the velocity, held while stationary
OrientationFromVelocity(vx, vy) ==
  LET oz[i \in 1..Len(vx)] ==
        IF SpeedAbove(vx[i], vy[i], StationarySpeed) THEN Atan2(vy[i], vx[i])
        ELSE IF i > 1 THEN oz[i - 1]
        ELSE 0
  IN [i \in 1..Len(vx) |-> oz[i]]

\* (mutant) wz from the plain difference of consecutive headings
YawRate_Unwrapped(oz) ==
  [i \in 1..Len(oz) |-> IF i > 1 THEN oz[i] - oz[i - 1] ELSE 0]

\* wz from the normalized difference of consecutive headings
YawRate(oz) ==
  [i \in 1..Len(oz) |-> IF i > 1 THEN Normalize(oz[i] - oz[i - 1]) ELSE 0]

calculateFromPxPy(data) ==
  LET vx == FiniteDifference(data.px)
      vy == FiniteDifference(data.py)
      oz == OrientationFromVelocity(vx, vy)
  IN [data EXCEPT !.vx = vx, !.vy = vy, !.oz = oz, !.wz = YawRate(oz)]

\* (mutant) the position is advanced before it is recorded
calculateFromVxVy_AdvancesFirst(data) ==
  LET oz == OrientationFromVelocity(data.vx, data.vy)
  IN [data EXCEPT !.px = Integrate(Seed(data.px) + data.vx[1], data.vx),
                  !.py = Integrate(Seed(data.py) + data.vy[1], data.vy),
                  !.oz = oz, !.wz = YawRate(oz)]

\* calculateFromVxVy
calculateFromVxVy(data) ==
  LET oz == OrientationFromVelocity(data.vx, data.vy)
  IN [data EXCEPT !.px = Integrate(Seed(data.px), data.vx),
                  !.py = Integrate(Seed(data.py), data.vy),
                  !.oz = oz, !.wz = YawRate(oz)]

\* (mutant) theta is advanced before it is recorded
calculateFromVxWz_AdvancesFirst(data) ==
  LET n == Len(data.vx)
      theta[i \in 1..n] ==
        Normalize((IF i = 1 THEN Seed(data.oz) ELSE theta[i - 1]) + data.wz[i])
      vy == [i \in 1..n |-> data.vx[i] * Tan(theta[i])]
  IN [data EXCEPT !.px = Integrate(Seed(data.px), data.vx),
                  !.py = Integrate(Seed(data.py), vy),
                  !.oz = [i \in 1..n |-> theta[i]],
                  !.vy = vy]

calculateFromVxWz(data) ==
  LET n == Len(data.vx)
      theta[i \in 1..n] ==
        IF i = 1 THEN Seed(data.oz)
        ELSE Normalize(theta[i - 1] + data.wz[i - 1])
      vy == [i \in 1..n |-> data.vx[i] * Tan(theta[i])]
  IN [data EXCEPT !.px = Integrate(Seed(data.px), data.vx),
                  !.py = Integrate(Seed(data.py), vy),
                  !.oz = [i \in 1..n |-> theta[i]],
                  !.vy = vy]

\* (mutant) py is returned as it came
calculateFromPxOz_KeepsPy(data) ==
  LET vx == FiniteDifference(data.px)
      vy == [i \in 1..Len(data.px) |-> vx[i] * Tan(data.oz[i])]
  IN [data EXCEPT !.vx = vx, !.vy = vy, !.wz = YawRate(data.oz)]

calculateFromPxOz(data) ==
  LET vx == FiniteDifference(data.px)
      vy == [i \in 1..Len(data.px) |-> vx[i] * Tan(data.oz[i])]
  IN [data EXCEPT !.py = Integrate(Seed(data.py), vy),
                  !.vx = vx, !.vy = vy, !.wz = YawRate(data.oz)]

getCompleteTrajectoryData(data, mode) ==
  CASE mode = "position" -> calculateFromPxPy(data)
    [] mode = "velocity" -> calculateFromVxVy(data)
    [] mode = "integral" -> calculateFromVxWz(data)
    [] mode = "differential" -> calculateFromPxOz(data)
    [] OTHER -> data

-----------------------------------------------------------------------------
(* src/utils/trajectory.ts: the metrics engine *)

\* an optional argument: left out, or given
Undefined == <<>>

Given(x) == <<x>>

\* (the early return for a missing signal is dead: every signal is an array)
calculateOutputData(data, gtData) ==
  LET length == Len(data.px)
  IN [ax |-> [i \in 1..length |->
                IF i > 1 THEN data.vx[i] - data.vx[i - 1] ELSE 0],
      ay |-> [i \in 1..length |->
                IF i > 1 THEN data.vy[i] - data.vy[i - 1] ELSE 0],
      cz |-> [i \in 1..length |->
                IF SpeedAbove(data.vx[i], data.vy[i], CurvatureSpeed)
                THEN Ratio(data.wz[i],
                           Sqrt(data.vx[i] * data.vx[i] + data.vy[i] * data.vy[i]))
                ELSE CzZero],
      l1 |-> [i \in 1..length |->
                IF gtData # Undefined /\ i <= Len(gtData[1].px)
                THEN LET dx == data.px[i] - gtData[1].px[i]
                         dy == data.py[i] - gtData[1].py[i]
                     IN Sqrt(dx * dx + dy * dy)
                ELSE 0]]

-----------------------------------------------------------------------------
(* src/state/traj.ts: the default trajectory *)

\* Math.sin of d degrees in thousandths (Bhaskara's rational approximation)
SinDeg(d) ==
  LET r == d % 360
      h == IF r <= 180 THEN r ELSE r - 180
      b == (4000 * h * (180 - h)) \div (40500 - h * (180 - h))
  IN IF r <= 180 THEN b ELSE -b

\* Math.cos, Math.sin of a lattice angle in thousandths
CosLattice(a) ==
  LET r == a % (2 * PI)
  IN IF r = 0 THEN 1000 ELSE IF r \in {1, 7} THEN 707
     ELSE IF r \in {2, 6} THEN 0 ELSE IF r \in {3, 5} THEN -707 ELSE -1000

SinLattice(a) == CosLattice(a - 2)

\* x thousandths, rounded toward zero
FromThousandths(x) == IF x < 0 THEN -((-x) \div 1000) ELSE x \div 1000

\* a yaw rate of r thousandths of rad/s on the wz lattice ((pi/4 rad) / 0.1 s),
\* rounded toward zero
YawRateLattice(r) == IF r < 0 THEN -((-r * 4) \div 31416) ELSE (r * 4) \div 31416

\* the S-curve yaw rate at index i of length (t = i / length), in thousandths of rad/s
SCurveYawRate(i, length) ==
  IF 10 * i < 3 * length THEN (300 * SinDeg((600 * i) \div length)) \div 1000
  ELSE IF 10 * i < 7 * length
       THEN -((300 * SinDeg((450 * i) \div length - 135)) \div 1000)
  ELSE 0

\* 10 + 3 * Math.sin(t * Math.PI * 2), in velocity units
SCurveSpeed(i, length) == 100 + (30 * SinDeg((360 * i) \div length)) \div 1000

initializeDefaultData ==
  LET length == timeSteps
      wz == [i \in 1..length |-> YawRateLattice(SCurveYawRate(i - 1, length))]
      theta[i \in 1..length] == (IF i = 1 THEN 0 ELSE theta[i - 1]) + wz[i]
      vx == [i \in 1..length |->
               FromThousandths(SCurveSpeed(i - 1, length) * CosLattice(theta[i]))]
      vy == [i \in 1..length |->
               FromThousandths(SCurveSpeed(i - 1, length) * SinLattice(theta[i]))]
      x[i \in 1..length] == (IF i = 1 THEN 0 ELSE x[i - 1]) + vx[i]
      y[i \in 1..length] == (IF i = 1 THEN 0 ELSE y[i - 1]) + vy[i]
  IN [px |-> [i \in 1..length |-> x[i]], py |-> [i \in 1..length |-> y[i]],
      oz |-> [i \in 1..length |-> theta[i]],
      vx |-> vx, vy |-> vy, wz |-> wz]

getInitialDataForKey(key) ==
  IF key \in InputKeys THEN initializeDefaultData[key]
  ELSE IF key = "cz" THEN [i \in 1..timeSteps |-> CzZero]
  ELSE Zeros(timeSteps)

-----------------------------------------------------------------------------
(* src/state/traj.ts: the store *)

VARIABLES
  inputDataAtomFamily,   \* key -> buffer, the six stored signals
  outputDataAtomFamily,  \* key -> buffer, the four stored metrics
  gtAtomFamily,          \* key -> buffer, the ground truth ([] until a snapshot)
  methodAtom,            \* the active calculation mode
  mounted,               \* App has rendered and its mount effect has run
  ops,                   \* user operations performed so far
  last                   \* the latest operation and its arguments

vars ==
  <<inputDataAtomFamily, outputDataAtomFamily, gtAtomFamily, methodAtom,
    mounted, ops, last>>

store == <<inputDataAtomFamily, outputDataAtomFamily, gtAtomFamily, methodAtom>>

\* inputDataAtom, gtDataAtom: the atoms of a family collected into one record
inputDataAtom == inputDataAtomFamily

gtDataAtom == gtAtomFamily

hasGroundTruthAtom == Len(gtDataAtom.px) > 0

completeTrajectoryDataAtom == getCompleteTrajectoryData(inputDataAtom, methodAtom)

outputDataInternalAtom ==
  calculateOutputData(completeTrajectoryDataAtom,
                      IF hasGroundTruthAtom THEN Given(gtDataAtom) ELSE Undefined)

\* the write function of syncOutputDataAtom on a store <<input, output, gt, mode>>:
\* both derived atoms are read before the first write
SyncInput(input, mode) ==
  LET completeData == getCompleteTrajectoryData(input, mode)
  IN [key \in InputKeys |->
        IF key \in METHODS[mode] THEN input[key] ELSE completeData[key]]

\* (mutant) without a ground truth the default trajectory stands in for it
SyncOutput_DefaultGroundTruth(input, gt, mode) ==
  calculateOutputData(getCompleteTrajectoryData(input, mode),
                      IF Len(gt.px) > 0 THEN Given(gt)
                      ELSE Given(initializeDefaultData))

SyncOutput(input, gt, mode) ==
  calculateOutputData(getCompleteTrajectoryData(input, mode),
                      IF Len(gt.px) > 0 THEN Given(gt) ELSE Undefined)

syncOutputDataAtom(input) ==
  /\ outputDataAtomFamily' = SyncOutput(input, gtAtomFamily, methodAtom)
  /\ inputDataAtomFamily' = SyncInput(input, methodAtom)

\* (mutant) of two writes to one index the earlier one is kept
RECURSIVE ApplyUpdates_FirstWins(_, _)
ApplyUpdates_FirstWins(data, updates) ==
  IF updates = <<>> THEN data
  ELSE [ApplyUpdates_FirstWins(data, Tail(updates))
          EXCEPT ![Head(updates).index] = Head(updates).value]

\* for (const update of updates) newData[update.index] = update.value
RECURSIVE ApplyUpdates(_, _)
ApplyUpdates(data, updates) ==
  IF updates = <<>> THEN data
  ELSE ApplyUpdates([data EXCEPT ![Head(updates).index] = Head(updates).value],
                    Tail(updates))

\* a member of a JSON object: absent, a value that is no array, or an array
Absent == [tag |-> "absent", items |-> <<>>]

Scalar == [tag |-> "scalar", items |-> <<>>]

Array(items) == [tag |-> "array", items |-> items]

\* the text of a file: "invalid" (JSON.parse throws), "value" (a number, a
\* string, null) or "object" with its members
Doc(kind, members) == [kind |-> kind, members |-> members]

NoMembers == [key \in InputKeys |-> Absent]

NoDoc == Doc("none", NoMembers)

Op(name) ==
  [op |-> name, key |-> "", updates |-> <<>>, mode |-> "", doc |-> NoDoc,
   accepted |-> TRUE]

\* the atoms as created: the signals hold the default trajectory, the metrics
\* zeros, the ground truth nothing; methodAtom holds its default (a mode kept in
\* localStorage reaches the atom as a later write, like setCalculationMode)
Init ==
  /\ inputDataAtomFamily = [key \in InputKeys |-> getInitialDataForKey(key)]
  /\ outputDataAtomFamily = [key \in OutputKeys |-> getInitialDataForKey(key)]
  /\ gtAtomFamily = [key \in InputKeys |-> <<>>]
  /\ methodAtom = "position"
  /\ mounted = FALSE
  /\ ops = 0
  /\ last = Op("init")

\* App: useEffect(() => { syncOutputData(); }, [syncOutputData]) runs once, on mount
Mount ==
  /\ ~mounted
  /\ mounted' = TRUE
  /\ syncOutputDataAtom(inputDataAtomFamily)
  /\ last' = Op("mount")
  /\ UNCHANGED <<gtAtomFamily, methodAtom, ops>>

\* a user operation is possible once the application is mounted
User == mounted /\ ops < MaxOps /\ ops' = ops + 1 /\ UNCHANGED mounted

-----------------------------------------------------------------------------
(* the inputs explored *)

EditValues == {-3, 10}

\* Math.floor(x / stepWidth) + 1 for a pointer at the left edge of the plot,
\* over one of its samples, or at its right edge
PointerCells == 0..timeSteps + 1

\* Graph getIndexFromX, counted from 1:
\* Math.max(0, Math.min(data.length - 1, Math.floor(x / stepWidth)))
getIndexFromX(cell, length) ==
  IF cell < 1 THEN 1 ELSE IF cell > length THEN length ELSE cell

\* a click (one update) or a drag (several updates, later ones win)
UpdateLists ==
  {<<[index |-> getIndexFromX(cell, timeSteps), value |-> v]>> :
     cell \in PointerCells, v \in EditValues}
  \cup {<<[index |-> 1, value |-> -3], [index |-> timeSteps, value |-> 10]>>,
        <<[index |-> 2, value |-> 10], [index |-> 2, value |-> -3]>>}

\* arrays shorter than, as long as and longer than CONFIG.timeSteps
ImportArrays ==
  {[i \in 1..n |-> 5 * i] : n \in {timeSteps - 1, timeSteps, timeSteps + 1}}

DocKeySets == {{"px", "vy", "wz"}, {"py", "oz", "vx"}}

ImportDocs ==
  {Doc("invalid", NoMembers), Doc("value", NoMembers), Doc("object", NoMembers),
   Doc("object", [NoMembers EXCEPT !.px = Scalar])}
  \cup {Doc("object", [key \in InputKeys |-> IF key \in K THEN Array(a) ELSE Absent]) :
          K \in DocKeySets, a \in ImportArrays}

-----------------------------------------------------------------------------
(* src/logic/initialize.ts: import *)

\* data[key] && Array.isArray(data[key])
IsArray(member) == member.tag = "array"

\* (mutant) a member of any kind under one of the six names is enough
validateImportData_KeyPresent(data) ==
  /\ data.kind = "object"
  /\ \E key \in InputKeys : data.members[key].tag # "absent"

validateImportData(data) ==
  /\ data.kind = "object"
  /\ \E key \in InputKeys : IsArray(data.members[key])

\* (mutant) a longer array keeps its last targetLength entries
padOrTruncate_KeepsTail(arr, targetLength) ==
  IF Len(arr) = targetLength THEN arr
  ELSE IF Len(arr) > targetLength
       THEN SubSeq(arr, Len(arr) - targetLength + 1, Len(arr))
  ELSE arr \o Zeros(targetLength - Len(arr))

\* (mutant) a shorter array is returned as it is
padOrTruncate_NoPadding(arr, targetLength) ==
  IF Len(arr) > targetLength THEN SubSeq(arr, 1, targetLength) ELSE arr

\* (mutant) a shorter array gets its zeros in front
padOrTruncate_PadsFront(arr, targetLength) ==
  IF Len(arr) = targetLength THEN arr
  ELSE IF Len(arr) > targetLength THEN SubSeq(arr, 1, targetLength)
  ELSE Zeros(targetLength - Len(arr)) \o arr

padOrTruncate(arr, targetLength) ==
  IF Len(arr) = targetLength THEN arr
  ELSE IF Len(arr) > targetLength THEN SubSeq(arr, 1, targetLength)
  ELSE arr \o Zeros(targetLength - Len(arr))

\* processedData of useImport
ProcessedData(data) ==
  [key \in InputKeys |->
     IF IsArray(data.members[key])
     THEN Array(padOrTruncate(data.members[key].items, timeSteps))
     ELSE Absent]

\* the buffers importTrajectoryAtom leaves for the sync
Imported(input, data) ==
  [key \in InputKeys |->
     IF IsArray(data[key]) THEN data[key].items ELSE input[key]]

-----------------------------------------------------------------------------
(* the operations *)

\* (mutant) a mode change that starts again from the default trajectory
setCalculationMode_Resets(mode) ==
  /\ User
  /\ methodAtom' = mode
  /\ inputDataAtomFamily' = SyncInput(initializeDefaultData, mode)
  /\ outputDataAtomFamily' = SyncOutput(initializeDefaultData, gtAtomFamily, mode)
  /\ last' = [Op("mode") EXCEPT !.mode = mode]
  /\ UNCHANGED gtAtomFamily

\* App: onClick={() => setCalculationMode(modeId)} writes methodAtom and nothing else
setCalculationMode(mode) ==
  /\ User
  /\ methodAtom' = mode
  /\ last' = [Op("mode") EXCEPT !.mode = mode]
  /\ UNCHANGED <<inputDataAtomFamily, outputDataAtomFamily, gtAtomFamily>>

\* batchUpdateTimeSeriesAtom
batchUpdateTimeSeriesAtom(key, updates) ==
  IF key \in OutputKeys
  THEN /\ outputDataAtomFamily' =
            [outputDataAtomFamily EXCEPT
               ![key] = ApplyUpdates(outputDataAtomFamily[key], updates)]
       /\ UNCHANGED inputDataAtomFamily
  ELSE syncOutputDataAtom(
         [inputDataAtomFamily EXCEPT
            ![key] = ApplyUpdates(inputDataAtomFamily[key], updates)])

\* (mutant) every graph takes the pointer, whatever the mode
isActive_AnyGraph(id) == id \in InputKeys \cup OutputKeys

\* Graph: isActive, as App passes it
isActive(id) == id \in METHODS[methodAtom]

\* Graph handleMouseDown / handleMouseMove: if (!isActive || !isEditable) return
handleMouse(id, updates) ==
  /\ User
  /\ isActive(id)
  /\ batchUpdateTimeSeriesAtom(id, updates)
  /\ last' = [Op("edit") EXCEPT !.key = id, !.updates = updates]
  /\ UNCHANGED <<gtAtomFamily, methodAtom>>

\* (mutant) a reset that also forgets the ground truth
resetTrajectoryAtom_ClearsGroundTruth ==
  /\ User
  /\ syncOutputDataAtom(initializeDefaultData)
  /\ gtAtomFamily' = [key \in InputKeys |-> <<>>]
  /\ last' = Op("reset")
  /\ UNCHANGED methodAtom

\* (mutant) a reset without the final sync
resetTrajectoryAtom_NoSync ==
  /\ User
  /\ inputDataAtomFamily' = initializeDefaultData
  /\ outputDataAtomFamily' = [key \in OutputKeys |-> getInitialDataForKey(key)]
  /\ last' = Op("reset")
  /\ UNCHANGED <<gtAtomFamily, methodAtom>>

\* useInitialize (the user confirms) -> resetTrajectoryAtom: the six signals are
\* set to the default data, the four metrics to zeros, then the sync runs
resetTrajectoryAtom ==
  /\ User
  /\ syncOutputDataAtom(initializeDefaultData)
  /\ last' = Op("reset")
  /\ UNCHANGED <<gtAtomFamily, methodAtom>>

\* importTrajectoryAtom
importTrajectoryAtom(data) == syncOutputDataAtom(Imported(inputDataAtomFamily, data))

\* useImport: the onchange handler of the file input
importData(doc) ==
  /\ User
  /\ IF doc.kind # "invalid" /\ validateImportData(doc)
     THEN /\ importTrajectoryAtom(ProcessedData(doc))
          /\ last' = [Op("import") EXCEPT !.doc = doc]
     ELSE /\ last' = [Op("import") EXCEPT !.doc = doc, !.accepted = FALSE]
          /\ UNCHANGED <<inputDataAtomFamily, outputDataAtomFamily>>
  /\ UNCHANGED <<gtAtomFamily, methodAtom>>

\* exportTrajectoryAtom, useExport: { timeSteps: CONFIG.timeSteps, dt: CONFIG.dt,
\* ...inputData } as JSON.stringify writes it and JSON.parse reads it back; the
\* stored numbers are finite and JSON keeps a finite number as it is; dt is the
\* time unit of the lattice
exportTrajectoryAtom ==
  [kind |-> "object",
   members |-> [key \in InputKeys |-> Array(inputDataAtom[key])],
   timeSteps |-> timeSteps,
   dt |-> 1]

\* useExport: the document is built from the stored buffers and downloaded; no
\* atom is written, and the operation is not one of those MaxOps counts
exportData ==
  /\ mounted
  /\ last' = [Op("export") EXCEPT !.doc = exportTrajectoryAtom]
  /\ UNCHANGED <<store, mounted, ops>>

\* the file just downloaded, which the user may pick in the import dialog
ExportedDocs == IF last.op = "export" THEN {last.doc} ELSE {}

\* useSetGroundTruth -> setGroundTruthAtom
setGroundTruthAtom ==
  /\ User
  /\ gtAtomFamily' = [key \in InputKeys |-> inputDataAtom[key]]
  /\ last' = Op("snapshot")
  /\ UNCHANGED <<inputDataAtomFamily, outputDataAtomFamily, methodAtom>>

Next ==
  \/ Mount
  \/ \E mode \in Methods : setCalculationMode(mode)
  \/ \E id \in InputKeys \cup OutputKeys, updates \in UpdateLists :
       handleMouse(id, updates)
  \/ resetTrajectoryAtom
  \/ \E doc \in ImportDocs \cup ExportedDocs : importData(doc)
  \/ setGroundTruthAtom
  \/ exportData

Spec == Init /\ [][Next]_vars

-----------------------------------------------------------------------------
(* Properties *)

\* the operations a user performs on the mounted application
ExternalOps == {"edit", "mode", "snapshot", "reset", "import"}

\* the ground truth handed to the metrics engine
CurrentGroundTruth == IF hasGroundTruthAtom THEN Given(gtDataAtom) ELSE Undefined

\* C1: after every external operation the six stored signals are the output of
\* the derivation for the active mode applied to the stored signals.
C1_StoredIsDerived ==
  last.op \in ExternalOps =>
    inputDataAtomFamily = getCompleteTrajectoryData(inputDataAtomFamily, methodAtom)

\* C2: after every external operation the four stored metrics are the metrics of
\* the current complete state and the current ground truth.
C2_MetricsFresh ==
  last.op \in ExternalOps =>
    outputDataAtomFamily =
      calculateOutputData(completeTrajectoryDataAtom, CurrentGroundTruth)

\* old with exactly the indices named in updates replaced by the value written last
Written(old, updates) ==
  [i \in 1..Len(old) |->
     LET hits == {j \in 1..Len(updates) : updates[j].index = i}
     IN IF hits = {} THEN old[i]
        ELSE updates[CHOOSE j \in hits : \A k \in hits : k <= j].value]

\* C3: an edit of a driving signal leaves that buffer equal to its previous
\* content with the written indices replaced, leaves the other driving buffer,
\* the ground truth and the mode unchanged; only the four other signals and the
\* metrics may differ.
C3_EditFrame ==
  [][last'.op = "edit" =>
       /\ last'.key \in METHODS[methodAtom]
       /\ inputDataAtomFamily'[last'.key] =
            Written(inputDataAtomFamily[last'.key], last'.updates)
       /\ \A key \in METHODS[methodAtom] \ {last'.key} :
            inputDataAtomFamily'[key] = inputDataAtomFamily[key]
       /\ gtAtomFamily' = gtAtomFamily
       /\ methodAtom' = methodAtom]_vars

\* an edit with two writes to one index has happened and a derived signal moved
C3_Witness ==
  /\ last.op = "edit"
  /\ last.key = "oz"
  /\ Len(last.updates) = 2
  /\ last.updates[1].index = last.updates[2].index
  /\ inputDataAtomFamily.oz[2] = -3
  /\ inputDataAtomFamily.vy # initializeDefaultData.vy

\* C4: right after a snapshot the ground truth equals the current complete
\* motion state, the derivation output for the active mode.
C4_SnapshotIsCompleteState ==
  last.op = "snapshot" => gtAtomFamily = completeTrajectoryDataAtom

\* C5: right after a snapshot the stored l1 buffer is all zeros.
C5_SnapshotZeroesL1 ==
  last.op = "snapshot" => outputDataAtomFamily.l1 = Zeros(timeSteps)

\* C6: no ground truth initially; only a snapshot changes the ground truth, and
\* once there is a ground truth there always is one.
C6_GroundTruthPersists ==
  /\ ~hasGroundTruthAtom
  /\ [][/\ last'.op # "snapshot" => gtAtomFamily' = gtAtomFamily
        /\ hasGroundTruthAtom => hasGroundTruthAtom']_vars

\* a ground truth that has survived a later change of the current state
C6_Witness ==
  /\ hasGroundTruthAtom
  /\ last.op \in {"edit", "reset", "import"}
  /\ gtAtomFamily.px # inputDataAtomFamily.px

\* C7: a mode change leaves the buffers of the two signals the new mode drives
\* as they were.
C7_ModeChangeKeepsDriving ==
  [][last'.op = "mode" =>
       \A key \in METHODS[methodAtom'] :
         inputDataAtomFamily'[key] = inputDataAtomFamily[key]]_vars

\* a switch to another mode whose driving signals had been derived and edited
C7_Witness ==
  /\ last.op = "mode"
  /\ methodAtom = "integral"
  /\ inputDataAtomFamily.vx # initializeDefaultData.vx
  /\ inputDataAtomFamily.wz # initializeDefaultData.wz

\* C8 as stated: after a reset the six signals are the default trajectory.
C8_ResetIsDefault ==
  last.op = "reset" => inputDataAtomFamily = initializeDefaultData

\* C8 amended: after a reset the two driving signals of the active mode are those
\* of the default trajectory, the other four are the derivation of the default
\* trajectory in the active mode, and the metrics are those of the stored state.
C8_ResetIsDerivedDefault ==
  last.op = "reset" =>
    /\ \A key \in METHODS[methodAtom] :
         inputDataAtomFamily[key] = initializeDefaultData[key]
    /\ \A key \in InputKeys \ METHODS[methodAtom] :
         inputDataAtomFamily[key] =
           getCompleteTrajectoryData(initializeDefaultData, methodAtom)[key]
    /\ outputDataAtomFamily =
         calculateOutputData(inputDataAtomFamily, CurrentGroundTruth)

\* a reset of an edited state in a mode other than the initial one, with a
\* ground truth to measure against
C8_Witness ==
  /\ last.op = "reset"
  /\ methodAtom = "velocity"
  /\ hasGroundTruthAtom
  /\ outputDataAtomFamily.l1 # Zeros(timeSteps)

\* an array of any length as a buffer of length n: cut, or filled up with zeros
Normalized(a, n) == [i \in 1..n |-> IF i <= Len(a) THEN a[i] ELSE 0]

\* the keys a document carries an array for
ArrayKeys(doc) ==
  IF doc.kind = "object"
  THEN {key \in InputKeys : doc.members[key].tag = "array"}
  ELSE {}

\* C9 as stated: after an accepted import every imported signal holds the
\* normalized array and every other signal holds what it held before.
C9_ImportFrame ==
  [][last'.op = "import" /\ last'.accepted =>
       \A key \in InputKeys :
         inputDataAtomFamily'[key] =
           IF key \in ArrayKeys(last'.doc)
           THEN Normalized(last'.doc.members[key].items, timeSteps)
           ELSE inputDataAtomFamily[key]]_vars

\* the six buffers right after the arrays of doc have replaced theirs
AfterReplacement(input, doc) ==
  [key \in InputKeys |->
     IF key \in ArrayKeys(doc)
     THEN Normalized(doc.members[key].items, timeSteps)
     ELSE input[key]]

\* C9 amended: after an accepted import every driving signal of the active mode
\* holds the normalized array if the document has one and what it held before
\* otherwise; the four other signals hold the derivation, in the active mode, of
\* the buffers as the import replaced them.
C9_ImportFrameDriving ==
  [][last'.op = "import" /\ last'.accepted =>
       /\ \A key \in METHODS[methodAtom] :
            inputDataAtomFamily'[key] =
              AfterReplacement(inputDataAtomFamily, last'.doc)[key]
       /\ \A key \in InputKeys \ METHODS[methodAtom] :
            inputDataAtomFamily'[key] =
              getCompleteTrajectoryData(
                AfterReplacement(inputDataAtomFamily, last'.doc), methodAtom)[key]]_vars

\* an accepted import of a short array into a driving signal, another driving
\* signal kept
C9_Witness ==
  /\ last.op = "import"
  /\ last.accepted
  /\ methodAtom = "velocity"
  /\ ArrayKeys(last.doc) = {"px", "vy", "wz"}
  /\ Len(last.doc.members.vy.items) < timeSteps
  /\ inputDataAtomFamily.vy[timeSteps] = 0
  /\ inputDataAtomFamily.vx[1] = -3

\* a document that is malformed, is no object, or has none of the six arrays
Unacceptable(doc) ==
  \/ doc.kind = "invalid"
  \/ doc.kind = "value"
  \/ \A key \in InputKeys : doc.members[key].tag # "array"

\* C10: an import of such a document is rejected and changes no signal, no
\* metrics buffer, no ground truth and not the mode.
C10_RejectedImport ==
  [][last'.op = "import" /\ Unacceptable(last'.doc) =>
       /\ ~last'.accepted
       /\ store' = store]_vars

\* a rejected import in a state a sync would have changed
C10_Witness ==
  /\ last.op = "import"
  /\ ~last.accepted
  /\ last.doc.kind = "object"
  /\ last.doc.members.px.tag = "scalar"
  /\ inputDataAtomFamily # SyncInput(inputDataAtomFamily, methodAtom)

-----------------------------------------------------------------------------
(* Function specifications: `last` holds one application of a function (its
   arguments, then its result), `ops` counts the applications, the store stays
   as it was created *)

AsCreated ==
  /\ inputDataAtomFamily = [key \in InputKeys |-> getInitialDataForKey(key)]
  /\ outputDataAtomFamily = [key \in OutputKeys |-> getInitialDataForKey(key)]
  /\ gtAtomFamily = [key \in InputKeys |-> <<>>]
  /\ methodAtom = "position"
  /\ mounted = FALSE

RECURSIVE SeqsUpTo(_, _)
\* the sequences over S of length at most n
SeqsUpTo(S, n) ==
  IF n = 0 THEN {<<>>}
  ELSE LET shorter == SeqsUpTo(S, n - 1)
       IN shorter \cup {Append(s, x) : s \in {t \in shorter : Len(t) = n - 1}, x \in S}

-----------------------------------------------------------------------------
(* padOrTruncate applied to one array of an imported file *)

ArrayEntries == {-1, 0, 7}

\* arrays from the empty one to two entries longer than CONFIG.timeSteps
PadArrays == SeqsUpTo(ArrayEntries, timeSteps + 2)

PadTargets == 1..timeSteps

InitPad ==
  /\ AsCreated
  /\ ops = 0
  /\ \E arr \in PadArrays, targetLength \in PadTargets :
       last = [op |-> "input", arr |-> arr, targetLength |-> targetLength,
               ret |-> <<>>]

\* useImport: processedData[key] = padOrTruncate(data[key], CONFIG.timeSteps)
ApplyPadOrTruncate ==
  /\ last.op = "input"
  /\ last' = [last EXCEPT !.op = "padOrTruncate",
                          !.ret = padOrTruncate(last.arr, last.targetLength)]
  /\ ops' = ops + 1
  /\ UNCHANGED <<store, mounted>>

NextPad == ApplyPadOrTruncate

SpecPad == InitPad /\ [][NextPad]_vars

\* C11: the buffer made of an imported array a for the length N has exactly N
\* entries; entry i is a's entry i wherever a has one, and 0 after a's end
\* (cut when a is longer, zeros at the tail when shorter, a itself when equal).
C11_LengthNormalization ==
  last.op = "padOrTruncate" =>
    /\ Len(last.ret) = last.targetLength
    /\ \A i \in 1..last.targetLength :
         last.ret[i] = IF i <= Len(last.arr) THEN last.arr[i] ELSE 0
    /\ Len(last.arr) = last.targetLength => last.ret = last.arr

\* a shorter array with non-zero entries has been padded
C11_Witness ==
  /\ last.op = "padOrTruncate"
  /\ 0 < Len(last.arr)
  /\ Len(last.arr) + 1 < last.targetLength
  /\ \A i \in 1..Len(last.arr) : last.arr[i] # 0
  /\ last.ret[last.targetLength] = 0

\* C12: in every reachable state each of the six signal buffers and each of the
\* four metrics buffers has exactly timeSteps entries.
C12_BufferLengths ==
  /\ \A key \in InputKeys : Len(inputDataAtomFamily[key]) = timeSteps
  /\ \A key \in OutputKeys : Len(outputDataAtomFamily[key]) = timeSteps

\* MaxOps operations have been performed, the last one an accepted import of an
\* array that is shorter or longer than timeSteps
C12_Witness ==
  /\ ops = MaxOps
  /\ last.op = "import"
  /\ last.accepted
  /\ \E key \in InputKeys :
       /\ IsArray(last.doc.members[key])
       /\ Len(last.doc.members[key].items) # timeSteps

-----------------------------------------------------------------------------
(* getCompleteTrajectoryData applied to a motion state, and again to its result *)

\* derivations in a row
MaxDerive == 2

Ramp(first, step) == [i \in 1..timeSteps |-> first + step * (i - 1)]

Zigzag(odd, even) == [i \in 1..timeSteps |-> IF i % 2 = 1 THEN odd ELSE even]

\* buffers an edit or an import can leave: positions and velocities of either
\* sign, with and without samples at rest; headings inside the graph's range [-pi, pi], at its lower end and (from
\* a file) beyond it; yaw rates that turn the heading across +-pi
DeriveInputs ==
  [px : {Zeros(timeSteps), Ramp(0, -2), Ramp(1, 3)},
   py : {Zeros(timeSteps), Zigzag(0, 1), Ramp(2, -3)},
   oz : {Zeros(timeSteps), Zigzag(3, -3), Ramp(5, 1), Ramp(-PI, 0)},
   vx : {Zeros(timeSteps), Ramp(2, 0), Ramp(-1, -1)},
   vy : {Zeros(timeSteps), Zigzag(1, -1), Zigzag(1, 0), Ramp(-3, 0)},
   wz : {Zeros(timeSteps), Ramp(3, 0), Ramp(-PI, 0)}]

InitDerive ==
  /\ AsCreated
  /\ ops = 0
  /\ \E data \in DeriveInputs :
       last = [op |-> "input", mode |-> "", prev |-> "", data |-> data,
               ret |-> data]

\* completeData = getCompleteTrajectoryData(inputData, method), applied to the
\* state the previous application returned
Derive(mode) ==
  /\ ops < MaxDerive
  /\ ops' = ops + 1
  /\ last' = [op |-> "derive", mode |-> mode, prev |-> last.mode,
              data |-> last.ret,
              ret |-> getCompleteTrajectoryData(last.ret, mode)]
  /\ UNCHANGED <<store, mounted>>

NextDerive == \E mode \in Methods : Derive(mode)

SpecDerive == InitDerive /\ [][NextDerive]_vars

\* C13: every heading of a derived state lies in (-pi, pi], in every mode and
\* for every input.
C13_HeadingInRange ==
  last.op = "derive" =>
    \A i \in 1..timeSteps : -PI < last.ret.oz[i] /\ last.ret.oz[i] <= PI

\* the modes that derive wz from the headings
YawRateModes == {"position", "velocity", "differential"}

\* d is the heading difference diff moved by a multiple of 2 pi
Congruent(d, diff) == (d - diff) % (2 * PI) = 0

\* C14 (as stated): in position, velocity and differential mode wz[0] = 0 and
\* every later wz[i] * dt is oz[i] - oz[i-1] moved by a multiple of 2 pi into the
\* half-open (-pi, pi].
C14_YawRateHalfOpen ==
  last.op = "derive" /\ last.mode \in YawRateModes =>
    /\ last.ret.wz[1] = 0
    /\ \A i \in 2..timeSteps :
         /\ Congruent(last.ret.wz[i], last.ret.oz[i] - last.ret.oz[i - 1])
         /\ -PI < last.ret.wz[i] /\ last.ret.wz[i] <= PI

\* C14 (amended): in position, velocity and differential mode wz[0] = 0 and
\* every later wz[i] * dt is oz[i] - oz[i-1] moved by a multiple of 2 pi into the
\* closed [-pi, pi], so |wz[i]| * dt <= pi; a difference already in [-pi, pi],
\* -pi included, is kept as it is.
C14_YawRateClosed ==
  last.op = "derive" /\ last.mode \in YawRateModes =>
    /\ last.ret.wz[1] = 0
    /\ \A i \in 2..timeSteps :
         LET diff == last.ret.oz[i] - last.ret.oz[i - 1]
         IN /\ Congruent(last.ret.wz[i], diff)
            /\ -PI <= last.ret.wz[i] /\ last.ret.wz[i] <= PI
            /\ (-PI <= diff /\ diff <= PI) => last.ret.wz[i] = diff

\* position mode has derived the headings 3 pi/4 and then -3 pi/4 from the
\* positions, and the yaw rate between them is 2 pi - 6 pi/4, not -6 pi/4
C14_Witness ==
  /\ last.op = "derive"
  /\ last.mode = "position"
  /\ last.ret.oz[1] = 3
  /\ last.ret.oz[2] = -3
  /\ last.ret.wz[2] = 2 * PI - 6

\* a and b agree on the two driving signals of mode
SameDriving(a, b, mode) == \A key \in METHODS[mode] : a[key] = b[key]

\* C15 (as stated): an application of derive to any state with the same driving
\* signals returns the same complete state, whatever the other four signals hold.
C15_FunctionOfDriving ==
  last.op = "derive" =>
    \A other \in DeriveInputs :
      SameDriving(other, last.data, last.mode) =>
        getCompleteTrajectoryData(other, last.mode) = last.ret

\* the first samples derive reads from signals it does not take as driving
SeedKeys ==
  [position |-> {}, velocity |-> {"px", "py"}, integral |-> {"px", "py", "oz"},
   differential |-> {"py"}]

SameSeeds(a, b, mode) == \A key \in SeedKeys[mode] : a[key][1] = b[key][1]

\* C15 (amended): an application of derive to any state with the same driving
\* signals and the same seeds (px[0], py[0] in velocity and integral mode, oz[0]
\* in integral mode, py[0] in differential mode) returns the same complete
\* state, whatever else the other signals hold and whatever was derived before.
C15_FunctionOfDrivingAndSeeds ==
  last.op = "derive" =>
    \A other \in DeriveInputs :
      SameDriving(other, last.data, last.mode)
      /\ SameSeeds(other, last.data, last.mode) =>
        getCompleteTrajectoryData(other, last.mode) = last.ret

\* velocity mode has been applied to a state, and another state has the same
\* driving signals and seeds but another px after the first sample
C15_Witness ==
  /\ last.op = "derive"
  /\ last.mode = "velocity"
  /\ \E other \in DeriveInputs :
       /\ SameDriving(other, last.data, last.mode)
       /\ SameSeeds(other, last.data, last.mode)
       /\ other.px # last.data.px
       /\ other.oz # last.data.oz

\* C16: when derive in velocity mode is followed by derive in position mode on
\* its result, the vx, vy of the second result equal the vx, vy given to the
\* first at every index before the last, and at the last index they equal the
\* given vx, vy of the index before it (the backward difference), for any seed.
C16_VelocityPositionRoundTrip ==
  [][last.op = "derive" /\ last.mode = "velocity" /\ last'.mode = "position" =>
       /\ \A i \in 1..timeSteps - 1 :
            /\ last'.ret.vx[i] = last.data.vx[i]
            /\ last'.ret.vy[i] = last.data.vy[i]
       /\ last'.ret.vx[timeSteps] = last.data.vx[timeSteps - 1]
       /\ last'.ret.vy[timeSteps] = last.data.vy[timeSteps - 1]]_vars

\* position mode has been applied to the result of velocity mode for a vx that
\* changes at every index and a seed other than 0
C16_Witness ==
  /\ last.op = "derive"
  /\ last.mode = "position"
  /\ last.prev = "velocity"
  /\ last.data.px[1] # 0
  /\ \A i \in 1..timeSteps - 1 : last.data.vx[i] # last.data.vx[i + 1]
  /\ last.ret.vx[timeSteps] # last.data.vx[timeSteps]

\* C17: in every reachable state without a ground truth the l1 buffer holds
\* zeros only, the stored one and the one the metrics engine computes.
C17_NoGroundTruthNoError ==
  ~hasGroundTruthAtom =>
    /\ outputDataAtomFamily.l1 = Zeros(timeSteps)
    /\ outputDataInternalAtom.l1 = Zeros(timeSteps)

\* no ground truth has been set, and the last of MaxOps operations was an edit
\* that left px and py other than the default ones
C17_Witness ==
  /\ ~hasGroundTruthAtom
  /\ ops = MaxOps
  /\ last.op = "edit"
  /\ inputDataAtomFamily.px # initializeDefaultData.px
  /\ inputDataAtomFamily.py # initializeDefaultData.py

-----------------------------------------------------------------------------
(* calculateOutputData applied to a motion state and a ground truth *)

PerturbationSizes == {-3, 4}

MetricsStates ==
  [px : {Zeros(timeSteps), Ramp(0, -2), Ramp(1, 3)},
   py : {Zeros(timeSteps), Zigzag(0, 1), Ramp(2, -3)},
   oz : {Zeros(timeSteps)},
   vx : {Ramp(2, 0), Ramp(0, 1)},
   vy : {Zeros(timeSteps), Zigzag(1, -1)},
   wz : {Zeros(timeSteps), Ramp(3, 0)}]

\* data with px[k] moved by delta
Perturbed(data, k, delta) == [data EXCEPT !.px[k] = @ + delta]

\* the first n samples of every signal of data
Truncated(data, n) == [key \in InputKeys |-> SubSeq(data[key], 1, n)]

\* no ground truth, the state with one sample of px moved, or any state cut to
\* any length from nothing to timeSteps
GroundTruths(data) ==
  {Undefined}
  \cup {Given(Perturbed(data, k, delta)) :
          k \in 1..timeSteps, delta \in PerturbationSizes}
  \cup {Given(Truncated(gt, n)) : gt \in MetricsStates, n \in 0..timeSteps}

InitMetrics ==
  /\ AsCreated
  /\ ops = 0
  /\ \E data \in MetricsStates :
       \E gtData \in GroundTruths(data) :
         last = [op |-> "input", data |-> data, gtData |-> gtData, ret |-> <<>>]

ApplyCalculateOutputData ==
  /\ last.op = "input"
  /\ last' = [last EXCEPT !.op = "calculateOutputData",
                          !.ret = calculateOutputData(last.data, last.gtData)]
  /\ ops' = ops + 1
  /\ UNCHANGED <<store, mounted>>

NextMetrics == ApplyCalculateOutputData

SpecMetrics == InitMetrics /\ [][NextMetrics]_vars

\* gt is data with nothing but px[k] changed
PerturbedAt(data, gt, k) ==
  /\ \A key \in InputKeys \ {"px"} : gt[key] = data[key]
  /\ Len(gt.px) = Len(data.px)
  /\ \A i \in 1..Len(data.px) : i # k => gt.px[i] = data.px[i]

\* C18: when the ground truth is the state with only px[k] moved by delta, l1[k]
\* is |delta| and every other l1[i] is 0; in general l1[i] is the distance
\* between (px[i], py[i]) and the ground truth's (px[i], py[i]) (to the
\* resolution of the lattice) for i below the length of the ground truth, and 0
\* from there on.
C18_L1IsDistance ==
  last.op = "calculateOutputData" =>
    LET data == last.data
        l1 == last.ret.l1
    IN /\ Len(l1) = timeSteps
       /\ last.gtData = Undefined => l1 = Zeros(timeSteps)
       /\ last.gtData # Undefined =>
            LET gt == last.gtData[1]
            IN /\ \A i \in 1..timeSteps :
                    IF i <= Len(gt.px)
                    THEN LET dx == data.px[i] - gt.px[i]
                             dy == data.py[i] - gt.py[i]
                         IN /\ l1[i] >= 0
                            /\ l1[i] * l1[i] <= dx * dx + dy * dy
                            /\ dx * dx + dy * dy < (l1[i] + 1) * (l1[i] + 1)
                    ELSE l1[i] = 0
               /\ \A k \in 1..timeSteps :
                    PerturbedAt(data, gt, k) =>
                      /\ l1[k] = Abs(data.px[k] - gt.px[k])
                      /\ \A i \in 1..timeSteps : i # k => l1[i] = 0

\* the ground truth is the state with px[2] moved by -3, and l1 is 3 there
C18_Witness ==
  /\ last.op = "calculateOutputData"
  /\ last.gtData # Undefined
  /\ PerturbedAt(last.data, last.gtData[1], 2)
  /\ last.gtData[1].px[2] - last.data.px[2] = -3
  /\ last.ret.l1[2] = 3

-----------------------------------------------------------------------------
(* The render cycle: a handler runs to its end, App renders again, and App's
   effect runs when one of its dependencies has changed. `last` holds the
   operation, the sync passes run since it began, and whether the effect is
   scheduled *)

\* sync passes after which the cycle is cut off
MaxPasses == 3

\* (mutant) the effect depends on the mode and the input data, as its comment says
EffectDeps_ModeAndInput == {"methodAtom", "inputDataAtomFamily"}

\* App: useEffect(..., [syncOutputData]): the atoms among the effect's
\* dependencies (the setter useSetAtom returns is the same at every render)
EffectDeps == {}

\* the atoms a sync pass writes (every set stores a new array)
SyncWrites == {"inputDataAtomFamily", "outputDataAtomFamily"}

\* a handler that wrote the atoms `written` and ran `passes` sync passes is done
Handled(name, written, passes) ==
  /\ ops' = ops + 1
  /\ last' = [op |-> name, passes |-> passes,
              pending |-> written \cap EffectDeps # {}]
  /\ UNCHANGED mounted

\* the user acts on the rendered application
Idle == mounted /\ ~last.pending /\ ops < MaxOps

InitRender ==
  /\ AsCreated
  /\ ops = 0
  /\ last = [op |-> "init", passes |-> 0, pending |-> TRUE]

\* the effect of App: syncOutputData()
AppEffect ==
  /\ last.pending
  /\ last.passes < MaxPasses
  /\ syncOutputDataAtom(inputDataAtomFamily)
  /\ mounted' = TRUE
  /\ last' = [last EXCEPT !.passes = @ + 1,
                          !.pending = SyncWrites \cap EffectDeps # {}]
  /\ UNCHANGED <<gtAtomFamily, methodAtom, ops>>

RenderedEdit(id, updates) ==
  /\ Idle
  /\ isActive(id)
  /\ batchUpdateTimeSeriesAtom(id, updates)
  /\ UNCHANGED <<gtAtomFamily, methodAtom>>
  /\ Handled("edit", SyncWrites, 1)

RenderedModeChange(mode) ==
  /\ Idle
  /\ methodAtom' = mode
  /\ UNCHANGED <<inputDataAtomFamily, outputDataAtomFamily, gtAtomFamily>>
  /\ Handled("mode", {"methodAtom"}, 0)

RenderedSnapshot ==
  /\ Idle
  /\ gtAtomFamily' = [key \in InputKeys |-> inputDataAtom[key]]
  /\ UNCHANGED <<inputDataAtomFamily, outputDataAtomFamily, methodAtom>>
  /\ Handled("snapshot", {"gtAtomFamily"}, 0)

RenderedReset ==
  /\ Idle
  /\ syncOutputDataAtom(initializeDefaultData)
  /\ UNCHANGED <<gtAtomFamily, methodAtom>>
  /\ Handled("reset", SyncWrites, 1)

RenderedImport(doc) ==
  /\ Idle
  /\ UNCHANGED <<gtAtomFamily, methodAtom>>
  /\ IF doc.kind # "invalid" /\ validateImportData(doc)
     THEN /\ importTrajectoryAtom(ProcessedData(doc))
          /\ Handled("import", SyncWrites, 1)
     ELSE /\ UNCHANGED <<inputDataAtomFamily, outputDataAtomFamily>>
          /\ Handled("import", {}, 0)

NextRender ==
  \/ AppEffect
  \/ \E id \in InputKeys \cup OutputKeys, updates \in UpdateLists :
       RenderedEdit(id, updates)
  \/ \E mode \in Methods : RenderedModeChange(mode)
  \/ RenderedSnapshot
  \/ RenderedReset
  \/ \E doc \in ImportDocs : RenderedImport(doc)

SpecRender == InitRender /\ [][NextRender]_vars

\* C19: every operation is over after at most one sync pass: when its handler
\* is done no further pass is scheduled, whatever the mode and the operation,
\* and a sync pass writes no driving signal of the active mode, so it is no
\* driving edit.
C19_NoFeedbackLoop ==
  /\ last.passes <= 1
  /\ last.op \in ExternalOps => ~last.pending
  /\ \A key \in METHODS[methodAtom] :
       SyncInput(inputDataAtomFamily, methodAtom)[key] = inputDataAtomFamily[key]

\* an edit has run its one sync pass, which changed stored signals, and
\* nothing is scheduled after it
C19_Witness ==
  /\ last.op = "edit"
  /\ last.passes = 1
  /\ ~last.pending
  /\ ops = MaxOps
  /\ inputDataAtomFamily # initializeDefaultData

-----------------------------------------------------------------------------
(* The angle-wrapping loops of derive, one iteration per step, on doubles: a
   double of magnitude 2^55 or more (1e300 in a file, or 1e999, which
   JSON.parse reads as Infinity) is left unchanged by adding or subtracting
   2 pi. `last` holds the heading before, the driving value, the value being
   wrapped, and a tick that flips at every iteration *)

\* the smallest lattice value that absorbs an added 2 pi
Huge == 1000

\* a + b on doubles
FloatSum(a, b) ==
  IF Abs(a) >= Huge THEN a ELSE IF Abs(b) >= Huge THEN b ELSE a + b

\* headings derive has stored or the graph lets the user set
Headings == -PI..PI

\* values of the driving wz * dt or oz: what an edit can place (the graph clamps
\* it to its range) and what a file can hold (any number)
DrivingValues == (-3 * PI)..(3 * PI) \cup {Huge, -Huge}

WrapModes == {"integral", "differential"}

InitWrap ==
  /\ AsCreated
  /\ ops = 0
  /\ \E mode \in WrapModes, heading \in Headings, driving \in DrivingValues :
       last = [op |-> "input", mode |-> mode, heading |-> heading,
               driving |-> driving, value |-> 0, tick |-> FALSE]

\* calculateFromVxWz: theta += data.wz[i] * CONFIG.dt
\* calculateFromPxOz: let dtheta = data.oz[i] - data.oz[i - 1]
BeginWrap ==
  /\ last.op = "input"
  /\ last' = [last EXCEPT
                !.op = "loop",
                !.value = IF last.mode = "integral"
                          THEN FloatSum(last.heading, last.driving)
                          ELSE FloatSum(last.driving, -last.heading)]
  /\ ops' = ops + 1
  /\ UNCHANGED <<store, mounted>>

\* while (theta > Math.PI) theta -= 2 * Math.PI
WrapDown ==
  /\ last.op = "loop"
  /\ last.value > PI
  /\ last' = [last EXCEPT !.value = FloatSum(@, -2 * PI), !.tick = ~@]
  /\ UNCHANGED <<store, mounted, ops>>

\* while (theta < -Math.PI) theta += 2 * Math.PI
WrapUp ==
  /\ last.op = "loop"
  /\ last.value <= PI
  /\ last.value < -PI
  /\ last' = [last EXCEPT !.value = FloatSum(@, 2 * PI), !.tick = ~@]
  /\ UNCHANGED <<store, mounted, ops>>

ExitWrap ==
  /\ last.op = "loop"
  /\ -PI <= last.value
  /\ last.value <= PI
  /\ last' = [last EXCEPT !.op = "exit"]
  /\ UNCHANGED <<store, mounted, ops>>

NextWrap == BeginWrap \/ WrapDown \/ WrapUp \/ ExitWrap

\* the engine keeps executing the loop
SpecWrap == InitWrap /\ [][NextWrap]_vars /\ WF_vars(NextWrap)

\* C20: the wrapping loops of derive exit for every value of the driving wz or
\* oz that an edit or an import can place in the buffers.
C20_WrappingLoopsExit == <>(last.op = "exit")

-----------------------------------------------------------------------------
(* the four derivations, one by one (SpecDerive) *)

RECURSIVE SumTo(_, _)
\* v[1] + ... + v[n]
SumTo(v, n) == IF n = 0 THEN 0 ELSE SumTo(v, n - 1) + v[n]

\* C21: in velocity mode px[0], py[0] are the seeds (the input's px[0], py[0])
\* and every later px[i], py[i] is the seed plus dt times the sum of the vx, vy
\* before i, so the last velocity sample reaches no position; vx, vy are returned
\* as given.
C21_VelocityIntegration ==
  last.op = "derive" /\ last.mode = "velocity" =>
    /\ last.ret.vx = last.data.vx
    /\ last.ret.vy = last.data.vy
    /\ \A i \in 1..timeSteps :
         /\ last.ret.px[i] = last.data.px[1] + SumTo(last.data.vx, i - 1)
         /\ last.ret.py[i] = last.data.py[1] + SumTo(last.data.vy, i - 1)

\* the scenario of the claim on the lattice: a constant vx, vy = 0 and zero
\* seeds give px = 0, vx, 2 vx, ... and py = oz = wz = 0
C21_Witness ==
  /\ last.op = "derive"
  /\ last.mode = "velocity"
  /\ last.data.vx = Ramp(2, 0)
  /\ last.data.vy = Zeros(timeSteps)
  /\ last.data.px[1] = 0
  /\ last.data.py[1] = 0
  /\ last.data.px # last.ret.px
  /\ last.ret.px = Ramp(0, 2)
  /\ last.ret.py = Zeros(timeSteps)
  /\ last.ret.oz = Zeros(timeSteps)
  /\ last.ret.wz = Zeros(timeSteps)

\* v is the forward difference of p over dt at every index but the last, and
\* the backward difference at the last, which repeats the one before it
DifferenceOf(v, p) ==
  /\ \A i \in 1..timeSteps - 1 : v[i] = p[i + 1] - p[i]
  /\ v[timeSteps] = p[timeSteps] - p[timeSteps - 1]
  /\ v[timeSteps] = v[timeSteps - 1]

\* C22: position mode derives vx from px and vy from py, and differential mode
\* vx from px, by the forward difference at every index but the last and the
\* backward difference at the last, so the last two samples are equal.
C22_FiniteDifference ==
  last.op = "derive" =>
    /\ last.mode \in {"position", "differential"} =>
         DifferenceOf(last.ret.vx, last.data.px)
    /\ last.mode = "position" => DifferenceOf(last.ret.vy, last.data.py)

\* position mode has been applied to a path whose steps change in x and in y
C22_Witness ==
  /\ last.op = "derive"
  /\ last.mode = "position"
  /\ last.ret.vx[1] # last.ret.vx[timeSteps]
  /\ last.ret.vy[1] # last.ret.vy[timeSteps]
  /\ last.ret.vx[timeSteps] # 0

\* the speed of (vx, vy) is at most 0.01 m/s (compared on the squares)
AtRest(vx, vy) == 100 * (vx * vx + vy * vy) <= StationarySpeed * StationarySpeed

\* C23: in position and velocity mode a sample at rest (speed <= 0.01) has the
\* heading of the sample before it and the yaw rate 0, or the heading 0 at
\* index 0; a moving sample has the heading atan2(vy, vx).
C23_StationaryCarryForward ==
  last.op = "derive" /\ last.mode \in {"position", "velocity"} =>
    \A i \in 1..timeSteps :
      IF AtRest(last.ret.vx[i], last.ret.vy[i])
      THEN IF i > 1
           THEN last.ret.oz[i] = last.ret.oz[i - 1] /\ last.ret.wz[i] = 0
           ELSE last.ret.oz[i] = 0
      ELSE last.ret.oz[i] = Atan2(last.ret.vy[i], last.ret.vx[i])

\* a sample at rest follows a moving one and holds its heading, which is not 0
C23_Witness ==
  /\ last.op = "derive"
  /\ last.mode = "velocity"
  /\ ~AtRest(last.ret.vx[1], last.ret.vy[1])
  /\ AtRest(last.ret.vx[2], last.ret.vy[2])
  /\ last.ret.oz[1] # 0
  /\ last.ret.oz[2] = last.ret.oz[1]

\* x moved by a multiple of 2 pi into the half-open (-pi, pi]
WrapHalfOpen(x) == ((x + PI - 1) % (2 * PI)) - (PI - 1)

\* x moved by a multiple of 2 pi into the closed [-pi, pi]: kept when it is
\* inside, brought down into (-pi, pi] from above, up into [-pi, pi) from below
WrapClosed(x) ==
  IF x > PI THEN WrapHalfOpen(x)
  ELSE IF x < -PI THEN -WrapHalfOpen(-x)
  ELSE x

\* the recurrence of integral mode between the input data and the result ret,
\* with Wrap as the normalization of the heading
IntegralRecurrence(data, ret, Wrap(_)) ==
  /\ ret.vx = data.vx
  /\ ret.wz = data.wz
  /\ ret.px[1] = data.px[1]
  /\ ret.py[1] = data.py[1]
  /\ ret.oz[1] = data.oz[1]
  /\ \A i \in 1..timeSteps : ret.vy[i] = ret.vx[i] * Tan(ret.oz[i])
  /\ \A i \in 1..timeSteps - 1 :
       /\ ret.px[i + 1] = ret.px[i] + ret.vx[i]
       /\ ret.py[i + 1] = ret.py[i] + ret.vy[i]
       /\ ret.oz[i + 1] = Wrap(ret.oz[i] + ret.wz[i])

\* C24 (as stated): integral mode starts px, py, oz at the seeds, sets
\* vy[i] = vx[i] tan(oz[i]), advances px, py by vx dt, vy dt and oz by wz dt
\* wrapped into (-pi, pi], and returns vx, wz as given.
C24_IntegralRecurrenceHalfOpen ==
  last.op = "derive" /\ last.mode = "integral" =>
    IntegralRecurrence(last.data, last.ret, WrapHalfOpen)

\* C24 (amended): the same recurrence with the heading wrapped into the closed
\* [-pi, pi]: a sum of exactly -pi, or one that comes up to -pi from below, stays
\* at -pi.
C24_IntegralRecurrence ==
  last.op = "derive" /\ last.mode = "integral" =>
    IntegralRecurrence(last.data, last.ret, WrapClosed)

\* the scenario of the claim on the lattice: constant vx = 2, zero seeds and a
\* yaw rate of 3 pi/4 per step give oz = 0, 3 pi/4, then 6 pi/4 wrapped to
\* -2 pi/4, with px = 0, 2, 4, py[0] = py[1] = 0 and vy[0] = 0
C24_Witness ==
  /\ last.op = "derive"
  /\ last.mode = "integral"
  /\ last.data.vx = Ramp(2, 0)
  /\ last.data.wz = Ramp(3, 0)
  /\ last.data.px[1] = 0 /\ last.data.py[1] = 0 /\ last.data.oz[1] = 0
  /\ last.ret.oz[2] = 3
  /\ last.ret.oz[3] = 6 - 2 * PI
  /\ last.ret.px = Ramp(0, 2)
  /\ last.ret.py[2] = 0
  /\ last.ret.vy[1] = 0
  /\ last.ret.vy[2] # 0

\* the relations of differential mode between the input data and the result
\* ret, with Wrap as the normalization of the heading difference
DifferentialRelations(data, ret, Wrap(_)) ==
  /\ ret.px = data.px
  /\ ret.oz = data.oz
  /\ DifferenceOf(ret.vx, data.px)
  /\ \A i \in 1..timeSteps : ret.vy[i] = ret.vx[i] * Tan(ret.oz[i])
  /\ ret.py[1] = data.py[1]
  /\ \A i \in 1..timeSteps - 1 : ret.py[i + 1] = ret.py[i] + ret.vy[i]
  /\ ret.wz[1] = 0
  /\ \A i \in 2..timeSteps : ret.wz[i] = Wrap(ret.oz[i] - ret.oz[i - 1])

\* C25 (as stated): differential mode returns px, oz as given, derives vx by the
\* finite difference of px, vy[i] = vx[i] tan(oz[i]), py from the seed py[0] by
\* py[i+1] = py[i] + vy[i] dt, and wz as the difference of oz wrapped into
\* (-pi, pi].
C25_DifferentialHalfOpen ==
  last.op = "derive" /\ last.mode = "differential" =>
    DifferentialRelations(last.data, last.ret, WrapHalfOpen)

\* C25 (amended): the same relations with the difference of oz wrapped into the
\* closed [-pi, pi].
C25_Differential ==
  last.op = "derive" /\ last.mode = "differential" =>
    DifferentialRelations(last.data, last.ret, WrapClosed)

\* differential mode on a path with a seed py[0] = 2 and headings that jump
\* between 3 pi/4 and -3 pi/4: vy changes sign, py leaves and returns to the
\* seed, and the yaw rates are the wrapped 2 pi/4 and -2 pi/4
C25_Witness ==
  /\ last.op = "derive"
  /\ last.mode = "differential"
  /\ last.data.px = Ramp(1, 3)
  /\ last.data.oz = Zigzag(3, -3)
  /\ last.data.py[1] = 2
  /\ last.ret.vy[1] = -3
  /\ last.ret.vy[2] = 3
  /\ last.ret.py[2] = -1
  /\ last.ret.py[3] = 2
  /\ last.ret.wz[2] = 2
  /\ last.ret.wz[3] = -2
  /\ last.ret.py # last.data.py

-----------------------------------------------------------------------------
(* the curvature (SpecMetrics) *)

\* the speed of (vx, vy) is at most 0.1 m/s (compared on the squares)
SlowerThanCurvatureSpeed(vx, vy) ==
  100 * (vx * vx + vy * vy) <= CurvatureSpeed * CurvatureSpeed

\* s is the speed of (vx, vy) to the resolution of the lattice
SpeedOf(s, vx, vy) ==
  /\ s >= 0
  /\ s * s <= vx * vx + vy * vy
  /\ vx * vx + vy * vy < (s + 1) * (s + 1)

\* C26: cz[i] is 0 wherever the speed is at most 0.1 (0 and exactly 0.1
\* included) and wz[i] / speed[i] elsewhere, so the divisor is never a speed of
\* 0.1 or less.
C26_CurvatureFallback ==
  last.op = "calculateOutputData" =>
    \A i \in 1..timeSteps :
      LET vx == last.data.vx[i]
          vy == last.data.vy[i]
          cz == last.ret.cz[i]
      IN IF SlowerThanCurvatureSpeed(vx, vy)
         THEN cz = CzZero
         ELSE /\ cz[2] > 0
              /\ \E s \in 1..(Abs(vx) + Abs(vy)) :
                   /\ SpeedOf(s, vx, vy)
                   /\ cz[1] * s = last.data.wz[i] * cz[2]

\* with a yaw rate other than 0 at every index: speed 0 and speed exactly 0.1
\* give the curvature 0, speed 0.2 gives wz / speed
C26_Witness ==
  /\ last.op = "calculateOutputData"
  /\ last.data.vx = Ramp(0, 1)
  /\ last.data.vy = Zeros(timeSteps)
  /\ last.data.wz = Ramp(3, 0)
  /\ last.ret.cz[1] = CzZero
  /\ last.ret.cz[2] = CzZero
  /\ last.ret.cz[3] = <<3, 2>>

-----------------------------------------------------------------------------
(* the edit gestures *)

\* the step is a mouse edit: handleMouse has issued a batch update
EditStep == ops' = ops + 1 /\ last'.op = "edit"

\* C27: a mouse edit issues a batch update only to a signal that the active
\* mode drives, at indices within the buffer; neither the four other signals
\* nor the four metrics are the target of an edit.
C27_EditsOnlyDrivingSignals ==
  [][EditStep =>
       /\ last'.key \in METHODS[methodAtom]
       /\ last'.key \notin (InputKeys \ METHODS[methodAtom]) \cup OutputKeys
       /\ \A n \in 1..Len(last'.updates) :
            last'.updates[n].index \in 1..timeSteps
       /\ outputDataAtomFamily' =
            SyncOutput([inputDataAtomFamily EXCEPT
                          ![last'.key] = ApplyUpdates(@, last'.updates)],
                       gtAtomFamily, methodAtom)]_vars

\* in differential mode a click at the right edge of the oz graph has written
\* the last sample of oz
C27_Witness ==
  /\ last.op = "edit"
  /\ methodAtom = "differential"
  /\ last.key = "oz"
  /\ last.updates = <<[index |-> timeSteps, value |-> -3]>>
  /\ inputDataAtomFamily.oz[timeSteps] = -3

-----------------------------------------------------------------------------
(* derivation applied to its own output (SpecDerive) *)

\* C28: derive applied in a mode to the result of derive in the same mode
\* returns that result on all six signals, so a sync pass over a store that
\* holds the result of a sync pass writes the signals and the metrics it
\* already holds, with or without a ground truth.
C28_DerivationFixedPoint ==
  last.op = "derive" /\ last.prev = last.mode =>
    /\ last.ret = last.data
    /\ SyncInput(last.data, last.mode) = last.data
    /\ \A gt \in {[key \in InputKeys |-> <<>>], last.data} :
         SyncOutput(last.data, gt, last.mode) =
           calculateOutputData(last.data,
                               IF Len(gt.px) > 0 THEN Given(gt) ELSE Undefined)

\* integral mode has been applied twice in a row to a state whose three seeds
\* and whose yaw rate are other than 0
C28_Witness ==
  /\ last.op = "derive"
  /\ last.mode = "integral"
  /\ last.prev = "integral"
  /\ last.data.px[1] # 0
  /\ last.data.py[1] # 0
  /\ last.data.oz[1] # 0
  /\ last.data.wz[1] # 0
  /\ last.ret = last.data

\* C29: when derive in position mode is followed by derive in velocity mode on
\* its result, the px, py of the second result equal the px, py given to the
\* first at every index: the path keeps every one of its points.
C29_PositionVelocityRoundTrip ==
  [][last.op = "derive" /\ last.mode = "position" /\ last'.mode = "velocity" =>
       \A i \in 1..timeSteps :
         /\ last'.ret.px[i] = last.data.px[i]
         /\ last'.ret.py[i] = last.data.py[i]]_vars

\* velocity mode has been applied to the result of position mode for a path
\* that starts away from the origin and turns back in y
C29_Witness ==
  /\ last.op = "derive"
  /\ last.mode = "velocity"
  /\ last.prev = "position"
  /\ last.data.px = Ramp(1, 3)
  /\ last.data.py = Zigzag(0, 1)
  /\ last.data.vy = FiniteDifference(Zigzag(0, 1))
  /\ last.ret.px = Ramp(1, 3)
  /\ last.ret.py = Zigzag(0, 1)

-----------------------------------------------------------------------------
(* export followed by import *)

\* the last step was an import of the document the step before it exported
ReimportStep == last.op = "export" /\ last'.op = "import" /\ last'.doc = last.doc

\* C30: an export writes no atom and its document carries the six stored
\* buffers, timeSteps and dt; importing that document back leaves the six signal
\* buffers and the four metrics buffers as they were before the export.
C30_ExportImportIdentity ==
  [][/\ last'.op = "export" =>
          /\ store' = store
          /\ \A key \in InputKeys :
               last'.doc.members[key] = Array(inputDataAtomFamily[key])
          /\ last'.doc.timeSteps = timeSteps
          /\ last'.doc.dt = 1
     /\ ReimportStep =>
          /\ last'.accepted
          /\ inputDataAtomFamily' = inputDataAtomFamily
          /\ outputDataAtomFamily' = outputDataAtomFamily]_vars

=============================================================================
